---- MODULE Spec2Model ----
(***************************************************************************)
(* Model of the kiv package: the Keithley 6487 IV-sweep controller, the    *)
(* Keithley 6517B IV-sweep controller (src/kiv/Keithley_IV.py) and the     *)
(* Keithley 6487 current-vs-time controller (src/kiv/cvt.py).              *)
(*                                                                         *)
(* Voltages are integers in a fixed unit (0.1 V), device readings small    *)
(* integers.  Quotients are exact rationals <<num, den>> so that Python's  *)
(* abs(), "+ 1" and int() are modelled by what they do.  An attribute that *)
(* has not been assigned is Unset, one holding v is Some(v).  A pyvisa call*)
(* write(":CMD ", str(x)) passes str(x) as the termination, which pyvisa   *)
(* appends to the message: the device receives ":CMD x", modelled as the   *)
(* pair <<":CMD", x>>.                                                      *)
(***************************************************************************)
EXTENDS Integers, Sequences, FiniteSets, TLC

VARIABLES inp, resp, a, b, cvt, inst, sessions, sent, last

vars == <<inp, resp, a, b, cvt, inst, sessions, sent, last>>

\* ---------------------------------------------------------------- bounds
MaxV            == 2    \* start ranges over -MaxV..MaxV
MaxStop         == 10   \* stop ranges over -MaxV..MaxStop
MaxStep         == 2    \* stepsize ranges over -MaxStep..MaxStep (0 included)
MaxResp         == 4    \* longest device response in the life-cycle specification
MaxFlat         == 6    \* longest device response in the de-interleaving specification
MaxElem         == 2    \* readings range over 0..MaxElem in the de-interleaving specification
MaxVolts        == 2    \* longest CVT voltage list
MaxVolt         == 1    \* CVT voltages range over -MaxVolt..MaxVolt
MaxSeries       == 2    \* longest CVT current series

\* ------------------------------------------------------ program constants
DefaultDelay    == 5    \* delay=5
DefaultNplc     == 1    \* nplc=1
TimeoutMargin   == 10000
MsPerSecond     == 1000
LineHz          == 50

Unset   == <<>>
Some(v) == <<v>>
Val(x)  == x[1]
NaN     == <<"nan">>
Inf     == <<"inf">>
None  == "None"

Controllers == {"Keithley6487_IV", "Keithley6517B_IV", "Keithley6487_CVT"}
IV6487  == "Keithley6487_IV"
IV6517B == "Keithley6517B_IV"
CVT     == "Keithley6487_CVT"

\* ------------------------------------------------------------ arithmetic
Abs(x) == IF x < 0 THEN -x ELSE x

RECURSIVE Gcd(_, _)
Gcd(x, y) == IF y = 0 THEN x ELSE Gcd(y, x % y)

\* The rational n/d (d # 0) with a positive denominator, in lowest terms.
Rat(n, d) ==
    LET g == Gcd(Abs(n), Abs(d))
        s == IF d < 0 THEN -1 ELSE 1
    IN  <<(s * n) \div g, (s * d) \div g>>

\* Python's abs() of a rational.
PyAbs(q) == <<Abs(q[1]), q[2]>>

\* q + k for an integer k.
RatAdd(q, k) == <<q[1] + k * q[2], q[2]>>

\* Python's int() of a rational: truncation toward zero.
PyInt(q) == IF q[1] >= 0 THEN q[1] \div q[2] ELSE -((-q[1]) \div q[2])

\* int(abs((stop - start) / stepsize) + 1), stepsize # 0.
NstepsNoAbs(start, stop, stepsize) ==
    PyInt(RatAdd(Rat(stop - start, stepsize), 1))

Nsteps(start, stop, stepsize) ==
    PyInt(RatAdd(PyAbs(Rat(stop - start, stepsize)), 1))

\* (nsteps * (delay + nplc/50)) * 1000 + 10000, in milliseconds.
Timeout(nsteps, delay, nplc) ==
    nsteps * (delay * MsPerSecond + (nplc * MsPerSecond) \div LineHz) + TimeoutMargin

\* ------------------------------------------------------------- sequences
\* Python's y[from::stride] on a sequence (from counted from 0).
Slice(y, from, stride) ==
    LET n == IF Len(y) > from THEN (Len(y) - from + stride - 1) \div stride ELSE 0
    IN  [k \in 1..n |-> y[from + (k - 1) * stride + 1]]

SeqsUpTo(S, n) == UNION {[1..k -> S] : k \in 0..n}

Take(s, n) == SubSeq(s, 1, n)

\* -------------------------------------------------------- the three objects
A_Blank ==
    [start |-> Unset, stop |-> Unset, stepsize |-> Unset, delay |-> Unset,
     nplc |-> Unset, nsteps |-> Unset, keithley |-> Unset, timeout |-> Unset,
     result |-> Unset, yvalues |-> Unset, curr |-> Unset, vso |-> Unset,
     fit |-> Unset, resistance |-> Unset, resistivity |-> Unset]

B_Blank ==
    [start |-> Unset, stop |-> Unset, stepsize |-> Unset, delay |-> Unset,
     nsteps |-> Unset, nplc |-> Unset, data_out |-> Unset, data_count |-> Unset,
     keithley |-> Unset, yvalues |-> Unset, curr |-> Unset,
     temperature |-> Unset, vso |-> Unset]

CVT_Blank ==
    [volts |-> Unset, times |-> Unset, curr |-> Unset, normalized |-> Unset]

NoSessions == [c \in Controllers |-> [opened |-> 0, open |-> 0]]
NothingSent == [c \in Controllers |-> <<>>]
NoCalls == [c \in Controllers |-> <<"none", None>>]
NoInstances == [c \in Controllers |-> FALSE]

\* ------------------------------------------------- Keithley6487_IV.__init__
\* The device calls of the constructor, in order: connect_keithley, timeout,
\* program_sens, program_sour, program_form, program_trig, program_syst.
A_InitCalls(start, stop, stepsize, delay, nplc, nsteps) ==
    << <<"open_resource">>,
       <<"*RST">>,
       <<"timeout", Timeout(nsteps, delay, nplc)>>,
       <<":SENS:FUNC 'CURR:DC'">>,
       <<":SENS:CURR:RANG:AUTO ON">>,
       <<":SENS:CURR:NPLC", nplc>>,
       <<":SOUR:VOLT:SWE:STAR", start>>,
       <<":SOUR:VOLT:SWE:STOP", stop>>,
       <<":SOUR:VOLT:SWE:STEP", stepsize>>,
       <<":SOUR:VOLT:SWE:DEL", delay>>,
       <<":FORM:DATA ASC">>,
       <<":FORM:ELEM READ,VSO">>,
       <<":TRIG:SOUR IMM">>,
       <<":TRIG:COUN", nsteps>>,
       <<"SYST:ZCH OFF">> >>

\* The attributes assigned by lines 36-40.
A_Fields(start, stop, stepsize, delay, nplc) ==
    [A_Blank EXCEPT !.start = Some(start), !.stop = Some(stop),
                    !.stepsize = Some(stepsize), !.delay = Some(delay),
                    !.nplc = Some(nplc)]

\* Keithley6487_IV(start, stop, stepsize, delay, nplc).  failAt = 0: every
\* device call succeeds; failAt = k: the k-th device call raises.
A_Init(start, stop, stepsize, delay, nplc, failAt) ==
    /\ last[IV6487][1] = "none"
    /\ IF stepsize = 0
       THEN \* line 41 divides by zero
            /\ failAt = 0
            /\ a' = A_Fields(start, stop, stepsize, delay, nplc)
            /\ last' = [last EXCEPT ![IV6487] = <<"__init__", "ZeroDivisionError">>]
            /\ UNCHANGED <<inst, sessions, sent>>
       ELSE LET nsteps == Nsteps(start, stop, stepsize)
                calls  == A_InitCalls(start, stop, stepsize, delay, nplc, nsteps)
                done   == IF failAt = 0 THEN Len(calls) ELSE failAt - 1
                opened == IF done >= 1 THEN 1 ELSE 0
                f      == [A_Fields(start, stop, stepsize, delay, nplc)
                              EXCEPT !.nsteps = Some(nsteps)]
            IN  /\ failAt \in 0..Len(calls)
                /\ a' = [f EXCEPT !.keithley = IF done >= 1 THEN Some("open") ELSE Unset,
                                  !.timeout = IF done >= 3 THEN Some(calls[3][2]) ELSE Unset]
                /\ sessions' = [sessions EXCEPT ![IV6487] =
                                   [opened |-> opened, open |-> opened]]
                /\ sent' = [sent EXCEPT ![IV6487] = Take(calls, done)]
                /\ inst' = [inst EXCEPT ![IV6487] = (failAt = 0)]
                /\ last' = [last EXCEPT ![IV6487] =
                               <<"__init__", IF failAt = 0 THEN None ELSE "VisaIOError">>]
    /\ UNCHANGED <<inp, resp, b, cvt>>

\* ------------------------------------------------ Keithley6517B_IV.__init__
\* Lines 203-210: the sign correction; no branch assigns when start = stop
\* or stepsize = 0.
B_Stepsize(start, stop, stepsize) ==
    IF start > stop /\ stepsize > 0 THEN Some(-stepsize)
    ELSE IF start > stop /\ stepsize < 0 THEN Some(stepsize)
    ELSE IF start < stop /\ stepsize > 0 THEN Some(stepsize)
    ELSE IF start < stop /\ stepsize < 0 THEN Some(-stepsize)
    ELSE Unset

\* Lines 215-218: the output element list, as the sequence of its elements.
B_DataOut(temperature) ==
    IF temperature THEN <<"READ", "VSO", "ETEM">> ELSE <<"READ", "VSO">>

\* str.count(',') + 1 of the element list.
CountElements(data_out) == Len(data_out)

\* Line 219 reads self.data_count, which no earlier line assigns.
B_DataCount(self) ==
    IF self.data_count = Unset
    THEN [exc |-> "AttributeError", value |-> Unset]
    ELSE [exc |-> None, value |-> Some(CountElements(Val(self.data_count)))]

\* Keithley6517B_IV(start, stop, stepsize, delay, nplc, temperature).
B_Init(start, stop, stepsize, delay, nplc, temperature) ==
    /\ last[IV6517B][1] = "none"
    /\ LET s1 == [B_Blank EXCEPT !.start = Some(start), !.stop = Some(stop),
                                 !.stepsize = B_Stepsize(start, stop, stepsize),
                                 !.delay = Some(delay)]
       IN  IF stepsize = 0
           THEN \* line 213 divides by zero
                /\ b' = s1
                /\ last' = [last EXCEPT ![IV6517B] = <<"__init__", "ZeroDivisionError">>]
           ELSE LET s2 == [s1 EXCEPT !.nsteps = Some(Nsteps(start, stop, stepsize)),
                                     !.nplc = Some(nplc),
                                     !.data_out = Some(B_DataOut(temperature))]
                    dc == B_DataCount(s2)
                IN  \* connect_keithley and the program_* calls follow line 219
                    \* and run only if it does not raise
                    /\ dc.exc # None
                    /\ b' = s2
                    /\ last' = [last EXCEPT ![IV6517B] = <<"__init__", dc.exc>>]
    /\ UNCHANGED <<inp, resp, a, cvt, inst, sessions, sent>>

\* ---------------------------------------------- Keithley6517B_IV.begin_runs
\* Lines 294-300: the stride begin_runs de-interleaves by.
B_Stride(data_out) ==
    IF \E k \in 1..Len(data_out) : data_out[k] = "ETEM" THEN 3 ELSE 2

\* Lines 293-300 with the temperature and voltage offsets exchanged.
B_StoreSwapped(self, y) ==
    IF B_Stride(Val(self.data_out)) = 3
    THEN [self EXCEPT !.yvalues = Some(y), !.curr = Some(Slice(y, 0, 3)),
                      !.temperature = Some(Slice(y, 2, 3)),
                      !.vso = Some(Slice(y, 1, 3))]
    ELSE [self EXCEPT !.yvalues = Some(y), !.curr = Some(Slice(y, 0, 2)),
                      !.vso = Some(Slice(y, 1, 2))]

\* Lines 293-300: the flat response y stored and de-interleaved.
B_Store(self, y) ==
    IF B_Stride(Val(self.data_out)) = 3
    THEN [self EXCEPT !.yvalues = Some(y), !.curr = Some(Slice(y, 0, 3)),
                      !.temperature = Some(Slice(y, 1, 3)),
                      !.vso = Some(Slice(y, 2, 3))]
    ELSE [self EXCEPT !.yvalues = Some(y), !.curr = Some(Slice(y, 0, 2)),
                      !.vso = Some(Slice(y, 1, 2))]

\* ----------------------------------------------------------------- kiv.cvt
\* Line 77, "for volt in self.volts", has no colon: the module does not
\* compile, so importing it raises SyntaxError and no Keithley6487_CVT
\* object, session or measurement ever exists: a caller who means to
\* measure inp.volts gets as far as the import.
CVT_Import ==
    /\ last[CVT][1] = "none"
    /\ last' = [last EXCEPT ![CVT] = <<"import", "SyntaxError">>]
    /\ UNCHANGED <<inp, resp, a, b, cvt, inst, sessions, sent>>

\* ----------------------------------------------- Keithley6487_IV.begin_runs
\* The device calls of begin_runs, in order.
A_RunCalls == << <<":SOUR:VOLT:SWE:INIT">>, <<":READ?">>, <<":FETC?">> >>

\* Lines 110-112: the flat response y stored and de-interleaved by stride 2.
A_Store(self, y) ==
    [self EXCEPT !.yvalues = Some(y), !.curr = Some(Slice(y, 0, 2)),
                 !.vso = Some(Slice(y, 1, 2))]

\* Lines 109-112 after done of the three device calls returned: the :READ?
\* text r is stored once :READ? returned, the values y once :FETC? returned.
A_AfterRunEarly(self, done, r, y) ==
    LET s1 == IF done >= 2 THEN [self EXCEPT !.result = Some(r)] ELSE self
    IN  IF done >= 2 THEN A_Store(s1, y) ELSE s1

A_AfterRun(self, done, r, y) ==
    LET s1 == IF done >= 2 THEN [self EXCEPT !.result = Some(r)] ELSE self
    IN  IF done >= 3 THEN A_Store(s1, y) ELSE s1

\* begin_runs on an instance.  failAt = 0: every device call succeeds;
\* failAt = k: the k-th call raises.  r is the text :READ? returns, y the
\* values :FETC? returns.  On a closed session the first write raises
\* InvalidSession and nothing reaches the device.
A_begin_runs(failAt, r, y) ==
    /\ inst[IV6487]
    /\ IF a.keithley = Some("closed")
       THEN /\ failAt = 1 /\ r = 0 /\ y = <<>>
            /\ sent' = [sent EXCEPT ![IV6487] = <<>>]
            /\ last' = [last EXCEPT ![IV6487] = <<"begin_runs", "InvalidSession">>]
            /\ a' = a
       ELSE LET done == IF failAt = 0 THEN Len(A_RunCalls) ELSE failAt - 1
            IN  /\ failAt \in 0..Len(A_RunCalls)
                /\ done < 2 => r = 0
                /\ done < 3 => y = <<>>
                /\ sent' = [sent EXCEPT ![IV6487] = Take(A_RunCalls, done) \o
                               (IF failAt = 0 THEN <<>> ELSE <<A_RunCalls[failAt]>>)]
                /\ a' = A_AfterRun(a, done, r, y)
                /\ last' = [last EXCEPT ![IV6487] =
                               <<"begin_runs", IF failAt = 0 THEN None ELSE "VisaIOError">>]
    /\ UNCHANGED <<inp, resp, b, cvt, inst, sessions>>

\* ---------------------------------------------------------- linear regression
RECURSIVE Sum(_)
Sum(s) == IF s = <<>> THEN 0 ELSE Head(s) + Sum(Tail(s))

Dot(x, y) == Sum([k \in 1..Len(x) |-> x[k] * y[k]])

\* scipy.stats.linregress(x, y): the outcomes a call can have.  slope and
\* intercept are exact; r, p and std_error are functions of the sums
\* <<n, ssxm, ssym, ssxym>> (scaled by n*n), which stand for them.  With all
\* x equal the fit is undefined: scipy raises ValueError or, in older
\* releases, returns nan.
Linregress(x, y) ==
    IF Len(x) # Len(y) \/ Len(x) = 0
    THEN {[exc |-> "ValueError", fit |-> Unset]}
    ELSE LET n     == Len(x)
             ssxm  == n * Dot(x, x) - Sum(x) * Sum(x)
             ssym  == n * Dot(y, y) - Sum(y) * Sum(y)
             ssxym == n * Dot(x, y) - Sum(x) * Sum(y)
         IN  IF ssxm = 0
             THEN {[exc |-> "ValueError", fit |-> Unset],
                   [exc |-> None,
                    fit |-> Some([slope |-> NaN, intercept |-> NaN,
                                  rps |-> <<n, ssxm, ssym, ssxym>>])]}
             ELSE {[exc |-> None,
                    fit |-> Some([slope |-> Rat(ssxym, ssxm),
                                  intercept |-> Rat(Sum(y) * ssxm - ssxym * Sum(x), n * ssxm),
                                  rps |-> <<n, ssxm, ssym, ssxym>>])]}

\* 1 / slope for a numpy float: nan stays nan, a zero slope gives inf.
Reciprocal(slope) ==
    IF slope = NaN THEN NaN
    ELSE IF slope[1] = 0 THEN Inf
    ELSE Rat(slope[2], slope[1])

\* calc_resistance: the outcomes [exc, self] of a call on self.  Without
\* measurement data self.vso does not exist.
CalcResistance(self) ==
    IF self.vso = Unset \/ self.curr = Unset
    THEN {[exc |-> "AttributeError", self |-> self]}
    ELSE {IF o.exc # None
          THEN [exc |-> o.exc, self |-> self]
          ELSE [exc |-> None,
                self |-> [self EXCEPT !.fit = o.fit,
                                      !.resistance = Some(Reciprocal(Val(o.fit).slope))]]
          : o \in Linregress(Val(self.vso), Val(self.curr))}

A_calc_resistance ==
    /\ inst[IV6487]
    /\ \E o \in CalcResistance(a) :
          /\ a' = o.self
          /\ last' = [last EXCEPT ![IV6487] = <<"calc_resistance", o.exc>>]
    /\ UNCHANGED <<inp, resp, b, cvt, inst, sessions, sent>>

\* ------------------------------------------- Keithley6487_IV.calc_resistivity
ResistivityArgs == {"length", "SA", "U", "units"}

\* (self.resistance*U.ohms * SA / length).to(units), a function of the
\* resistance for the caller's fixed sample.
Resistivity(resistance) == <<"resistivity", resistance>>

\* Line 128: "if length and SA and U and units", given = the arguments that
\* are passed and truthy.
AllGiven(given) == given = ResistivityArgs

\* Lines 127-129 without the test of line 128.
CalcResistivityUnguarded(self, given) ==
    {IF o.exc # None
     THEN o
     ELSE [exc |-> None,
           self |-> [o.self EXCEPT !.resistivity = Some(Resistivity(Val(o.self.resistance)))]]
     : o \in CalcResistance(self)}

\* Lines 127-129 on self: calc_resistance first, always; then the
\* resistivity when every argument is given.
CalcResistivity(self, given) ==
    {IF o.exc # None \/ ~AllGiven(given)
     THEN o
     ELSE [exc |-> None,
           self |-> [o.self EXCEPT !.resistivity = Some(Resistivity(Val(o.self.resistance)))]]
     : o \in CalcResistance(self)}

A_calc_resistivity(given) ==
    /\ inst[IV6487]
    /\ \E o \in CalcResistivity(a, given) :
          /\ a' = o.self
          /\ last' = [last EXCEPT ![IV6487] =
                         <<IF AllGiven(given) THEN "calc_resistivity"
                                              ELSE "calc_resistivity_missing", o.exc>>]
    /\ UNCHANGED <<inp, resp, b, cvt, inst, sessions, sent>>

\* --------------------------------------------- Keithley6487_IV.close_keithley
A_close_keithley ==
    /\ inst[IV6487]
    /\ a' = [a EXCEPT !.keithley = Some("closed")]
    /\ sessions' = [sessions EXCEPT ![IV6487].open = 0]
    /\ last' = [last EXCEPT ![IV6487] = <<"close_keithley", None>>]
    /\ UNCHANGED <<inp, resp, b, cvt, inst, sent>>

\* ------------------------------------------------- constructor specification
Starts == -MaxV..MaxV
Stops  == -MaxV..MaxStop
Steps  == -MaxStep..MaxStep

InitCtor ==
    /\ inp \in [start : Starts, stop : Stops, stepsize : Steps,
                temperature : BOOLEAN, volts : {<<1>>}, series : {<<0, 1>>}]
    /\ resp = <<>>
    /\ a = A_Blank
    /\ b = B_Blank
    /\ cvt = CVT_Blank
    /\ inst = NoInstances
    /\ sessions = NoSessions
    /\ sent = NothingSent
    /\ last = NoCalls

CallA_Init ==
    \E failAt \in 0..Len(A_InitCalls(0, 0, 0, 0, 0, 0)) :
        A_Init(inp.start, inp.stop, inp.stepsize, DefaultDelay, DefaultNplc, failAt)

CallB_Init ==
    B_Init(inp.start, inp.stop, inp.stepsize, DefaultDelay, DefaultNplc, inp.temperature)

NextCtor == CallA_Init \/ CallB_Init

SpecCtor == InitCtor /\ [][NextCtor]_vars

\* -------------------------------------------------- life-cycle specification
Readings  == 0..1
ReadTexts == {0}
Responses == SeqsUpTo(Readings, MaxResp)

Init ==
    /\ inp = [start |-> 0, stop |-> 1, stepsize |-> 1, temperature |-> FALSE,
              volts |-> <<1, -1>>, series |-> <<0, 1>>]
    /\ resp = <<>>
    /\ a = A_Blank
    /\ b = B_Blank
    /\ cvt = CVT_Blank
    /\ inst = NoInstances
    /\ sessions = NoSessions
    /\ sent = NothingSent
    /\ last = NoCalls

CallA_begin_runs ==
    \E failAt \in 0..Len(A_RunCalls) :
        \E r \in (IF failAt \in {0, 3} THEN ReadTexts ELSE {0}) :
            \E y \in (IF failAt = 0 THEN Responses ELSE {<<>>}) :
                A_begin_runs(failAt, r, y)

\* Every argument given, one missing, or none given.
GivenSets == {ResistivityArgs, {}} \cup {ResistivityArgs \ {x} : x \in ResistivityArgs}

CallA_calc_resistivity == \E given \in GivenSets : A_calc_resistivity(given)

Next ==
    \/ CallA_Init
    \/ CallA_begin_runs
    \/ A_calc_resistance
    \/ CallA_calc_resistivity
    \/ A_close_keithley

Spec == Init /\ [][Next]_vars

\* ---------------------------------------------------- session specification
\* The three controllers side by side, with the operations that touch the
\* device.
NextSessions ==
    \/ CallA_Init
    \/ CallA_begin_runs
    \/ A_close_keithley
    \/ CallB_Init
    \/ CVT_Import

SpecSessions == Init /\ [][NextSessions]_vars

\* ------------------------------------------------ de-interleaving specification
\* The two begin_runs applied to every flat response resp.
Elems == 0..MaxElem

InitDeinterleave ==
    /\ inp = [start |-> 0, stop |-> 1, stepsize |-> 1, temperature |-> FALSE,
              volts |-> <<1, -1>>, series |-> <<0, 1>>]
    /\ resp \in SeqsUpTo(Elems, MaxFlat)
    /\ a = A_Blank
    /\ b \in {[B_Blank EXCEPT !.data_out = Some(B_DataOut(t))] : t \in BOOLEAN}
    /\ cvt = CVT_Blank
    /\ inst = NoInstances
    /\ sessions = NoSessions
    /\ sent = NothingSent
    /\ last = NoCalls

ApplyA_Store ==
    /\ a.yvalues = Unset
    /\ a' = A_Store(a, resp)
    /\ UNCHANGED <<inp, resp, b, cvt, inst, sessions, sent, last>>

ApplyB_Store ==
    /\ b.yvalues = Unset
    /\ b' = B_Store(b, resp)
    /\ UNCHANGED <<inp, resp, a, cvt, inst, sessions, sent, last>>

NextDeinterleave == ApplyA_Store \/ ApplyB_Store

SpecDeinterleave == InitDeinterleave /\ [][NextDeinterleave]_vars

\* ------------------------------------------------------------ CVT specification
VoltValues == -MaxVolt..MaxVolt
VoltLists  == SeqsUpTo(VoltValues, MaxVolts)
SeriesSet  == SeqsUpTo(0..MaxElem, MaxSeries)

InitCVT ==
    /\ inp \in [start : {0}, stop : {1}, stepsize : {1}, temperature : {FALSE},
                volts : VoltLists, series : SeriesSet]
    /\ resp = <<>>
    /\ a = A_Blank
    /\ b = B_Blank
    /\ cvt = CVT_Blank
    /\ inst = NoInstances
    /\ sessions = NoSessions
    /\ sent = NothingSent
    /\ last = NoCalls

NextCVT == CVT_Import

SpecCVT == InitCVT /\ [][NextCVT]_vars

\* ================================================================= properties
Range(f) == {f[k] : k \in DOMAIN f}

\* floor(|stop - start| / |stepsize|) + 1 of the caller's arguments.
StepCount == (Abs(inp.stop - inp.start) \div Abs(inp.stepsize)) + 1

C2_StepsizeSign ==
    (last[IV6517B][1] = "__init__" /\ inp.stepsize # 0) =>
        /\ b.stepsize # Unset
        /\ Abs(Val(b.stepsize)) = Abs(inp.stepsize)
        /\ inp.stop > inp.start => Val(b.stepsize) > 0
        /\ inp.stop <= inp.start => Val(b.stepsize) < 0
        /\ <<":TSEQ:STSW:STEP", Val(b.stepsize)>> \in Range(sent[IV6517B])

\* current, voltage re-interleaved.
Interleave2(c, v) ==
    [k \in 1..(Len(c) + Len(v)) |->
        IF k % 2 = 1 THEN c[(k + 1) \div 2] ELSE v[k \div 2]]

\* current, temperature, voltage re-interleaved.
Interleave3(c, t, v) ==
    [k \in 1..(Len(c) + Len(t) + Len(v)) |->
        IF k % 3 = 1 THEN c[(k + 2) \div 3]
        ELSE IF k % 3 = 2 THEN t[(k + 1) \div 3]
        ELSE v[k \div 3]]

\* C3: a flat response of length 2n (3n with temperature in the 6517B
\* controller) is de-interleaved by begin_runs into sequences of length n
\* each, and re-interleaving them in the device order gives the response back.
C3_Deinterleave ==
    /\ (a.yvalues # Unset /\ Len(Val(a.yvalues)) % 2 = 0) =>
          /\ Len(Val(a.curr)) = Len(Val(a.yvalues)) \div 2
          /\ Len(Val(a.vso)) = Len(Val(a.yvalues)) \div 2
          /\ Interleave2(Val(a.curr), Val(a.vso)) = Val(a.yvalues)
    /\ (b.yvalues # Unset /\ Len(Val(b.data_out)) = 2
                          /\ Len(Val(b.yvalues)) % 2 = 0) =>
          /\ Len(Val(b.curr)) = Len(Val(b.yvalues)) \div 2
          /\ Len(Val(b.vso)) = Len(Val(b.yvalues)) \div 2
          /\ Interleave2(Val(b.curr), Val(b.vso)) = Val(b.yvalues)
    /\ (b.yvalues # Unset /\ Len(Val(b.data_out)) = 3
                          /\ Len(Val(b.yvalues)) % 3 = 0) =>
          /\ b.temperature # Unset
          /\ Len(Val(b.curr)) = Len(Val(b.yvalues)) \div 3
          /\ Len(Val(b.temperature)) = Len(Val(b.yvalues)) \div 3
          /\ Len(Val(b.vso)) = Len(Val(b.yvalues)) \div 3
          /\ Interleave3(Val(b.curr), Val(b.temperature), Val(b.vso)) = Val(b.yvalues)

\* Both begin_runs have de-interleaved the response 0,1,2,0,1,2: by stride 2
\* and, with temperature, by stride 3.
C3_Witness ==
    /\ resp = <<0, 1, 2, 0, 1, 2>>
    /\ a.curr = Some(<<0, 2, 1>>) /\ a.vso = Some(<<1, 0, 2>>)
    /\ b.curr = Some(<<0, 0>>) /\ b.temperature = Some(<<1, 1>>)
    /\ b.vso = Some(<<2, 2>>)

\* What the device sees for one voltage of a CVT run, in order.
CVT_Visit(v) ==
    << <<":SOUR:VOLT", v>>, <<":SOUR:VOLT:STAT ON">>, <<":READ?">>,
       <<":SOUR:VOLT:STAT OFF">>, <<"record", v>>, <<"sleep">> >>

RECURSIVE CVT_Visits(_)
CVT_Visits(volts) ==
    IF volts = <<>> THEN <<>> ELSE CVT_Visit(Head(volts)) \o CVT_Visits(Tail(volts))

\* C4: a caller who runs the CVT measurement on a voltage list gets every
\* voltage visited once, in list order, each with configure, source ON,
\* blocking read, source OFF, record, sleep, and a (time, current) series
\* recorded under every voltage.
C4_VisitsEveryVoltage ==
    last[CVT][1] # "none" =>
        /\ sent[CVT] = CVT_Visits(inp.volts)
        /\ inp.volts # <<>> =>
              /\ cvt.curr # Unset
              /\ DOMAIN Val(cvt.curr) = Range(inp.volts)

\* The caller obtained the controller without a fault of the device or of
\* the arguments.
Constructed(c) ==
    /\ last[c][1] # "none"
    /\ last[c] # <<"__init__", "VisaIOError">>
    /\ last[c] # <<"__init__", "ZeroDivisionError">>

\* C5: each of the three controllers holds at most one open session, which
\* its construction created, and none after close_keithley.
C5_OneSessionPerInstance ==
    \A c \in Controllers :
        /\ sessions[c].open <= 1
        /\ sessions[c].opened <= 1
        /\ Constructed(c) => sessions[c].opened = 1
        /\ last[c][1] = "close_keithley" => sessions[c].open = 0

\* A step in which begin_runs of the 6487 controller raised.
FailedRun == last'[IV6487][1] = "begin_runs" /\ last'[IV6487][2] # None

\* The device calls of the step are the run's calls up to the failing one,
\* each made once.
NoRetry == sent'[IV6487] = Take(A_RunCalls, Len(sent'[IV6487]))

NonConstant(s) == \E i, j \in 1..Len(s) : s[i] # s[j]

RECURSIVE Min(_)
Min(s) == IF Len(s) = 1 THEN s[1]
          ELSE LET m == Min(Tail(s)) IN IF Head(s) < m THEN Head(s) ELSE m

RECURSIVE Max(_)
Max(s) == IF Len(s) = 1 THEN s[1]
          ELSE LET m == Max(Tail(s)) IN IF Head(s) > m THEN Head(s) ELSE m

\* (I - min)/(max - min), and 1 minus that for a negative voltage.
Normalized(s, v) ==
    LET ptp == Max(s) - Min(s)
    IN  [k \in 1..Len(s) |->
            IF v < 0 THEN Rat(ptp - (s[k] - Min(s)), ptp)
                     ELSE Rat(s[k] - Min(s), ptp)]

\* C7: a caller who runs the CVT measurement and its normalization gets, for
\* every voltage with a non-constant current series, the normalized series
\* (I-min)/(max-min), inverted for a negative voltage.
C7_Normalization ==
    last[CVT][1] # "none" =>
        \A k \in 1..Len(inp.volts) :
            NonConstant(inp.series) =>
                /\ cvt.normalized # Unset
                /\ inp.volts[k] \in DOMAIN Val(cvt.normalized)
                /\ Val(cvt.normalized)[inp.volts[k]] =
                       Normalized(inp.series, inp.volts[k])

\* A step in which calc_resistivity ran with an argument missing.
MissingArgCall == last'[IV6487][1] = "calc_resistivity_missing"

\* C8 as stated, in its frame part: a calc_resistivity with an argument
\* missing that returns has changed no stored result (the fit results
\* slope, intercept, r, p, std_error, the resistance, the resistivity).
C8_MissingArgNoOp ==
    [][(MissingArgCall /\ last'[IV6487][2] = None) =>
          /\ a'.fit = a.fit
          /\ a'.resistance = a.resistance
          /\ a'.resistivity = a.resistivity]_vars

\* C8, amended: calc_resistivity with an argument missing leaves the
\* resistivity and the measurement data as they were, but runs
\* calc_resistance first: it raises what calc_resistance raises (and then
\* changes nothing), and otherwise the fit results are those of a fit to the
\* data stored now.
C8_MissingArgRefits ==
    [][MissingArgCall =>
          /\ a'.resistivity = a.resistivity
          /\ a'.yvalues = a.yvalues /\ a'.curr = a.curr /\ a'.vso = a.vso
          /\ last'[IV6487][2] # None => a' = a
          /\ last'[IV6487][2] = None =>
                /\ a.vso # Unset
                /\ \E o \in Linregress(Val(a.vso), Val(a.curr)) :
                      /\ o.exc = None
                      /\ a'.fit = o.fit
                      /\ a'.resistance = Some(Reciprocal(Val(o.fit).slope))]_vars

\* calc_resistivity without its arguments has fitted the stored data: the
\* fit results are set, the resistivity is not.
C8_Witness ==
    /\ last[IV6487] = <<"calc_resistivity_missing", None>>
    /\ a.vso = Some(<<0, 1>>) /\ a.curr = Some(<<0, 1>>)
    /\ a.fit # Unset
    /\ a.resistance = Some(<<1, 1>>)
    /\ a.resistivity = Unset

\* C9: in the 6517B controller construction sets data_count to the number of
\* elements of the output element list, and that count is the stride
\* begin_runs de-interleaves by.
C9_DataCount ==
    (last[IV6517B][1] = "__init__" /\ inp.stepsize # 0) =>
        /\ b.data_out # Unset
        /\ b.data_count = Some(CountElements(Val(b.data_out)))
        /\ b.data_count = Some(B_Stride(Val(b.data_out)))

====
